---- MODULE Spec2Model ----
(***************************************************************************)
(* Agent manager (src/app.py): Agent records, the SQLite table "agents",   *)
(* the per-session st.session_state and the Streamlit callbacks            *)
(* add_agent, delete_agent, run_team_simulation and clear_log.             *)
(*                                                                         *)
(* Text that only passes through the program unchanged (name, prompt,      *)
(* model) is an opaque string.  The tools column is converted by           *)
(* json.dumps / json.loads, so a tool name is a sequence of characters and *)
(* the stored text is the sequence of characters json.dumps writes.        *)
(* A character is a one-symbol string; "U+041F" stands for the single      *)
(* non-ASCII character CYRILLIC CAPITAL LETTER PE (as in the TOOLS list).  *)
(***************************************************************************)
EXTENDS Naturals, Sequences, FiniteSets

(***************************************************************************)
(* Bounds of the model.                                                    *)
(***************************************************************************)
MaxAgents   == 2     \* uuid4 values drawn over a run
MaxLog      == 4     \* entries of all simulation logs together
MaxNames    == 2     \* length of the team_multiselect selection
MaxFailures == 1     \* store operations that raise over a run
MaxRepoOps  == 3     \* save/delete calls of the repository-level run

\* browser sessions, each with its own session_state
Sessions == {1, 2}

(***************************************************************************)
(* Input values.                                                           *)
(***************************************************************************)
Names   == {"Alice", "Bob"}
Prompts == {"Find papers"}
MODELS  == {"gpt-4o"}
\* tool names: plain, with the characters json escapes, non-ASCII
ToolA == <<"S", "Q", "L">>
ToolB == <<"U+041F", " ", "\"", "\\", ",">>
TOOLS == {ToolA, ToolB}
ToolLists == {<<>>, <<ToolA>>, <<ToolB, ToolA>>}

\* agent_id=None / "" : the falsy id of Agent.__init__
NoId == 0

(***************************************************************************)
(* json.dumps(list of str), default ensure_ascii=True and separators       *)
(* (", ", ": ").                                                           *)
(***************************************************************************)
NonAscii == {"U+041F"}

Hex4(c) == IF c = "U+041F" THEN <<"0", "4", "1", "f">> ELSE <<"f", "f", "f", "d">>

\* mutant: the characters are written as they are
EscapeCharRaw(c) == <<c>>

EscapeChar(c) ==
    IF c = "\"" THEN <<"\\", "\"">>
    ELSE IF c = "\\" THEN <<"\\", "\\">>
    ELSE IF c \in NonAscii THEN <<"\\", "u">> \o Hex4(c)
    ELSE <<c>>

RECURSIVE EscapeStr(_)
EscapeStr(s) == IF s = <<>> THEN <<>> ELSE EscapeChar(Head(s)) \o EscapeStr(Tail(s))

EncodeStr(s) == <<"\"">> \o EscapeStr(s) \o <<"\"">>

RECURSIVE EncodeItems(_)
EncodeItems(l) ==
    IF l = <<>> THEN <<>>
    ELSE IF Len(l) = 1 THEN EncodeStr(l[1])
    ELSE EncodeStr(l[1]) \o <<",", " ">> \o EncodeItems(Tail(l))

JsonDumps(l) == <<"[">> \o EncodeItems(l) \o <<"]">>

(***************************************************************************)
(* json.loads of a JSON array of strings.  ok = FALSE is JSONDecodeError.  *)
(***************************************************************************)
JsonError == [ok |-> FALSE, value |-> <<>>, next |-> 0]

RECURSIVE SkipWs(_, _)
SkipWs(t, i) == IF i <= Len(t) /\ t[i] = " " THEN SkipWs(t, i + 1) ELSE i

UnHex4(h) ==
    IF \E c \in NonAscii : Hex4(c) = h
    THEN CHOOSE c \in NonAscii : Hex4(c) = h
    ELSE "U+FFFD"

\* the characters of a string whose opening quote is at i - 1
RECURSIVE ParseStr(_, _, _)
ParseStr(t, i, acc) ==
    IF i > Len(t) THEN JsonError
    ELSE IF t[i] = "\"" THEN [ok |-> TRUE, value |-> acc, next |-> i + 1]
    ELSE IF t[i] = "\\" THEN
        IF i + 1 > Len(t) THEN JsonError
        ELSE IF t[i + 1] \in {"\"", "\\"} THEN ParseStr(t, i + 2, Append(acc, t[i + 1]))
        ELSE IF t[i + 1] = "u" /\ i + 5 <= Len(t)
             THEN ParseStr(t, i + 6, Append(acc, UnHex4(SubSeq(t, i + 2, i + 5))))
        ELSE JsonError
    ELSE ParseStr(t, i + 1, Append(acc, t[i]))

\* the items of an array from position i, a value expected there
RECURSIVE ParseItems(_, _, _)
ParseItems(t, i, acc) ==
    LET j == SkipWs(t, i) IN
    IF j > Len(t) \/ t[j] # "\"" THEN JsonError
    ELSE LET s == ParseStr(t, j + 1, <<>>) IN
         IF ~s.ok THEN JsonError
         ELSE LET k == SkipWs(t, s.next) IN
              IF k > Len(t) THEN JsonError
              ELSE IF t[k] = "]" THEN [ok |-> TRUE, value |-> Append(acc, s.value), next |-> k + 1]
              ELSE IF t[k] = "," THEN ParseItems(t, k + 1, Append(acc, s.value))
              ELSE JsonError

JsonLoads(t) ==
    LET i == SkipWs(t, 1) IN
    IF i > Len(t) \/ t[i] # "[" THEN JsonError
    ELSE LET j == SkipWs(t, i + 1) IN
         LET r == IF j <= Len(t) /\ t[j] = "]"
                  THEN [ok |-> TRUE, value |-> <<>>, next |-> j + 1]
                  ELSE ParseItems(t, j, <<>>) IN
         IF r.ok /\ SkipWs(t, r.next) = Len(t) + 1 THEN r ELSE JsonError

(***************************************************************************)
(* class Agent                                                             *)
(***************************************************************************)
\* mutant: the uuid is drawn once, when the class is defined
AgentStaleUuid(name, prompt, model, tools, agent_id, uuid) ==
    [id     |-> IF agent_id # NoId THEN agent_id ELSE 1,
     name   |-> name,
     prompt |-> prompt,
     model  |-> model,
     tools  |-> tools]

\* Agent.__init__; uuid is the value str(uuid.uuid4()) would return
Agent(name, prompt, model, tools, agent_id, uuid) ==
    [id     |-> IF agent_id # NoId THEN agent_id ELSE uuid,
     name   |-> name,
     prompt |-> prompt,
     model  |-> model,
     tools  |-> tools]

RECURSIVE JoinTools(_)
JoinTools(l) ==
    IF l = <<>> THEN <<>>
    ELSE IF Len(l) = 1 THEN l[1]
    ELSE l[1] \o <<",", " ">> \o JoinTools(Tail(l))

\* Agent.simulate_work: the parts the f-string joins, in order
simulate_work(agent) ==
    LET tools_used == IF agent.tools # <<>>
                      THEN <<"with tools: ">> \o JoinTools(agent.tools)
                      ELSE <<"without tools.">> IN
    <<"**", agent.name, " (", agent.model, "):** > ", agent.prompt,
      " *Task done ">> \o tools_used \o <<"*">>

(***************************************************************************)
(* The table "agents" is the sequence of its rows in rowid order.          *)
(***************************************************************************)
Row(agent) ==
    [id     |-> agent.id,
     name   |-> agent.name,
     prompt |-> agent.prompt,
     model  |-> agent.model,
     tools  |-> JsonDumps(agent.tools)]

RowIds(db) == {db[i].id : i \in 1 .. Len(db)}

\* mutant: INSERT OR REPLACE
save_or_replace(db, agent) ==
    [exc |-> "none",
     db  |-> Append(SelectSeq(db, LAMBDA row : row.id # agent.id), Row(agent))]

\* mutant: the INSERT is never committed
save_uncommitted(db, agent) ==
    IF agent.id \in RowIds(db)
    THEN [exc |-> "IntegrityError", db |-> db]
    ELSE [exc |-> "none", db |-> db]

\* save_agent_to_db: INSERT under id TEXT PRIMARY KEY
save_agent_to_db(db, agent) ==
    IF agent.id \in RowIds(db)
    THEN [exc |-> "IntegrityError", db |-> db]
    ELSE [exc |-> "none", db |-> Append(db, Row(agent))]

\* mutant: DELETE FROM agents, without the WHERE
delete_without_where(db, agent_id) == <<>>

\* mutant: the DELETE is never committed
delete_uncommitted(db, agent_id) == db

\* delete_agent_from_db: DELETE FROM agents WHERE id = ?
delete_agent_from_db(db, agent_id) ==
    SelectSeq(db, LAMBDA row : row.id # agent_id)

\* number of rows among the first n whose id is falsy (each draws a uuid4)
RECURSIVE FalsyUpTo(_, _)
FalsyUpTo(db, n) ==
    IF n = 0 THEN 0
    ELSE FalsyUpTo(db, n - 1) + (IF db[n].id = NoId THEN 1 ELSE 0)

\* load_agents_from_db; drawn is the number of uuid4 values drawn before it
load_agents_from_db(db, drawn) ==
    LET tools_list(row) == IF row.tools # <<>> THEN JsonLoads(row.tools)
                           ELSE [ok |-> TRUE, value |-> <<>>, next |-> 0] IN
    IF \E i \in 1 .. Len(db) : ~tools_list(db[i]).ok
    THEN [exc |-> "JSONDecodeError", agents |-> <<>>, drawn |-> drawn]
    ELSE [exc    |-> "none",
          agents |-> [i \in 1 .. Len(db) |->
                        Agent(db[i].name, db[i].prompt, db[i].model,
                              tools_list(db[i]).value, db[i].id,
                              drawn + FalsyUpTo(db, i))],
          drawn  |-> drawn + FalsyUpTo(db, Len(db))]

(***************************************************************************)
(* State.                                                                  *)
(*   store      the rows of table agents in agents.db, shared by sessions  *)
(*   uuids      how many uuid4 values have been drawn; the n-th value is n *)
(*              (uuid4 is taken never to repeat a value)                   *)
(*   started    the sessions whose session_state holds "agents" and        *)
(*              "simulation_log"                                           *)
(*   agents, simulation_log, agent_name_input, agent_prompt_input          *)
(*              the session_state keys of each session                     *)
(*   last       the script run, callback or repository function that ran   *)
(*              last: its name, its session, its arguments, the toast it   *)
(*              showed (by icon) and the exception it raised               *)
(*   failures   how many store operations have raised OperationalError     *)
(*   kept       repository-level run only: the records saved and not       *)
(*              deleted since                                              *)
(*   ops        repository-level run only: save/delete calls made          *)
(***************************************************************************)
VARIABLES store, uuids, started, agents, simulation_log,
          agent_name_input, agent_prompt_input, last, failures, kept, ops

vars == <<store, uuids, started, agents, simulation_log,
          agent_name_input, agent_prompt_input, last, failures, kept, ops>>

\* the two bracket entries of a simulation, one part each
StartMarker == <<"--- start of team simulation ---">>
EndMarker   == <<"--- team simulation finished ---">>

\* the record argument of a call that has none
NoAgent == [id |-> NoId, name |-> "", prompt |-> "", model |-> "", tools |-> <<>>]

Call(op, s, agent_id, names, toast, exc) ==
    [op |-> op, session |-> s, agent_id |-> agent_id, names |-> names,
     toast |-> toast, exc |-> exc, agent |-> NoAgent]

Init ==
    /\ store = <<>>
    /\ uuids = 0
    /\ started = {}
    /\ agents = [s \in Sessions |-> <<>>]
    /\ simulation_log = [s \in Sessions |-> <<>>]
    /\ agent_name_input = [s \in Sessions |-> ""]
    /\ agent_prompt_input = [s \in Sessions |-> ""]
    /\ last = Call("none", 0, NoId, <<>>, "none", "none")
    /\ failures = 0
    /\ kept = {}
    /\ ops = 0

\* the store answers (ok) or raises OperationalError
StoreAnswers(ok) == ok \/ failures < MaxFailures

Failed(ok) == IF ok THEN failures ELSE failures + 1

(***************************************************************************)
(* agent_and_team_manager, first script run of a session: session_state    *)
(* is initialised from the table.                                          *)
(***************************************************************************)
\* mutant: the registry is loaded from the table on every script run
agent_and_team_manager_reload(s) ==
    /\ LET loaded == load_agents_from_db(store, uuids) IN
       /\ loaded.drawn <= MaxAgents
       /\ IF loaded.exc = "none"
          THEN /\ agents' = [agents EXCEPT ![s] = loaded.agents]
               /\ simulation_log' = [simulation_log EXCEPT ![s] =
                                        IF s \in started THEN @ ELSE <<>>]
               /\ started' = started \cup {s}
          ELSE UNCHANGED <<agents, simulation_log, started>>
       /\ uuids' = loaded.drawn
       /\ last' = Call("agent_and_team_manager", s, NoId, <<>>, "none", loaded.exc)
    /\ UNCHANGED <<store, agent_name_input, agent_prompt_input, failures, kept, ops>>

agent_and_team_manager(s) ==
    /\ s \notin started
    /\ LET loaded == load_agents_from_db(store, uuids) IN
       /\ loaded.drawn <= MaxAgents
       /\ IF loaded.exc = "none"
          THEN /\ agents' = [agents EXCEPT ![s] = loaded.agents]
               /\ simulation_log' = [simulation_log EXCEPT ![s] = <<>>]
               /\ started' = started \cup {s}
          ELSE UNCHANGED <<agents, simulation_log, started>>
       /\ uuids' = loaded.drawn
       /\ last' = Call("agent_and_team_manager", s, NoId, <<>>, "none", loaded.exc)
    /\ UNCHANGED <<store, agent_name_input, agent_prompt_input, failures, kept, ops>>

(***************************************************************************)
(* st.text_input / st.text_area: the user edits the name and prompt        *)
(* widgets of a session.                                                   *)
(***************************************************************************)
text_input(s, name, prompt) ==
    /\ s \in started
    /\ agent_name_input' = [agent_name_input EXCEPT ![s] = name]
    /\ agent_prompt_input' = [agent_prompt_input EXCEPT ![s] = prompt]
    /\ last' = Call("text_input", s, NoId, <<>>, "none", "none")
    /\ UNCHANGED <<store, uuids, started, agents, simulation_log, failures, kept, ops>>

(***************************************************************************)
(* add_agent; model and tools are the selectbox and multiselect values,    *)
(* ok whether the store answers the INSERT.                                *)
(***************************************************************************)
\* mutant: if not name and not prompt
RejectedBoth(name, prompt) == name = "" /\ prompt = ""

\* mutant: if not name
RejectedNameOnly(name, prompt) == name = ""

\* if not name or not prompt
Rejected(name, prompt) == name = "" \/ prompt = ""

\* mutant: the inputs keep their text after a successful save
add_agent_no_reset(s, model, tools, ok) ==
    /\ s \in started
    /\ LET name   == agent_name_input[s]
           prompt == agent_prompt_input[s] IN
       IF Rejected(name, prompt)
       THEN /\ ok
            /\ last' = Call("add_agent", s, NoId, <<>>, "error", "none")
            /\ UNCHANGED <<store, uuids, agents, failures>>
       ELSE /\ uuids < MaxAgents
            /\ StoreAnswers(ok)
            /\ LET new_agent == Agent(name, prompt, model, tools, NoId, uuids + 1)
                   saved == IF ok THEN save_agent_to_db(store, new_agent)
                            ELSE [exc |-> "OperationalError", db |-> store] IN
               /\ uuids' = uuids + 1
               /\ agents' = [agents EXCEPT ![s] = Append(@, new_agent)]
               /\ store' = saved.db
               /\ failures' = Failed(ok)
               /\ IF saved.exc = "none"
                  THEN last' = Call("add_agent", s, NoId, <<>>, "success", "none")
                  ELSE last' = Call("add_agent", s, NoId, <<>>, "none", saved.exc)
    /\ UNCHANGED <<started, simulation_log, kept, ops,
                   agent_name_input, agent_prompt_input>>

\* mutant: the table is rewritten from the session's registry
add_agent_rewrite(s, model, tools, ok) ==
    /\ s \in started
    /\ LET name   == agent_name_input[s]
           prompt == agent_prompt_input[s] IN
       IF Rejected(name, prompt)
       THEN /\ ok
            /\ last' = Call("add_agent", s, NoId, <<>>, "error", "none")
            /\ UNCHANGED <<store, uuids, agents, agent_name_input,
                           agent_prompt_input, failures>>
       ELSE /\ uuids < MaxAgents
            /\ StoreAnswers(ok)
            /\ LET new_agent == Agent(name, prompt, model, tools, NoId, uuids + 1)
                   registry  == Append(agents[s], new_agent) IN
               /\ uuids' = uuids + 1
               /\ agents' = [agents EXCEPT ![s] = registry]
               /\ store' = IF ok THEN [i \in 1 .. Len(registry) |-> Row(registry[i])]
                           ELSE store
               /\ failures' = Failed(ok)
               /\ IF ok
                  THEN /\ last' = Call("add_agent", s, NoId, <<>>, "success", "none")
                       /\ agent_name_input' = [agent_name_input EXCEPT ![s] = ""]
                       /\ agent_prompt_input' = [agent_prompt_input EXCEPT ![s] = ""]
                  ELSE /\ last' = Call("add_agent", s, NoId, <<>>, "none", "OperationalError")
                       /\ UNCHANGED <<agent_name_input, agent_prompt_input>>
    /\ UNCHANGED <<started, simulation_log, kept, ops>>

\* mutant: the record is saved first and appended only if the INSERT went through
add_agent_save_first(s, model, tools, ok) ==
    /\ s \in started
    /\ LET name   == agent_name_input[s]
           prompt == agent_prompt_input[s] IN
       IF Rejected(name, prompt)
       THEN /\ ok
            /\ last' = Call("add_agent", s, NoId, <<>>, "error", "none")
            /\ UNCHANGED <<store, uuids, agents, agent_name_input,
                           agent_prompt_input, failures>>
       ELSE /\ uuids < MaxAgents
            /\ StoreAnswers(ok)
            /\ LET new_agent == Agent(name, prompt, model, tools, NoId, uuids + 1)
                   saved == IF ok THEN save_agent_to_db(store, new_agent)
                            ELSE [exc |-> "OperationalError", db |-> store] IN
               /\ uuids' = uuids + 1
               /\ store' = saved.db
               /\ failures' = Failed(ok)
               /\ IF saved.exc = "none"
                  THEN /\ agents' = [agents EXCEPT ![s] = Append(@, new_agent)]
                       /\ last' = Call("add_agent", s, NoId, <<>>, "success", "none")
                       /\ agent_name_input' = [agent_name_input EXCEPT ![s] = ""]
                       /\ agent_prompt_input' = [agent_prompt_input EXCEPT ![s] = ""]
                  ELSE /\ last' = Call("add_agent", s, NoId, <<>>, "none", saved.exc)
                       /\ UNCHANGED <<agents, agent_name_input, agent_prompt_input>>
    /\ UNCHANGED <<started, simulation_log, kept, ops>>

add_agent(s, model, tools, ok) ==
    /\ s \in started
    /\ LET name   == agent_name_input[s]
           prompt == agent_prompt_input[s] IN
       IF Rejected(name, prompt)
       THEN /\ ok
            /\ last' = Call("add_agent", s, NoId, <<>>, "error", "none")
            /\ UNCHANGED <<store, uuids, agents, agent_name_input,
                           agent_prompt_input, failures>>
       ELSE /\ uuids < MaxAgents
            /\ StoreAnswers(ok)
            /\ LET new_agent == Agent(name, prompt, model, tools, NoId, uuids + 1)
                   saved == IF ok THEN save_agent_to_db(store, new_agent)
                            ELSE [exc |-> "OperationalError", db |-> store] IN
               /\ uuids' = uuids + 1
               /\ agents' = [agents EXCEPT ![s] = Append(@, new_agent)]
               /\ store' = saved.db
               /\ failures' = Failed(ok)
               /\ IF saved.exc = "none"
                  THEN /\ last' = Call("add_agent", s, NoId, <<>>, "success", "none")
                       /\ agent_name_input' = [agent_name_input EXCEPT ![s] = ""]
                       /\ agent_prompt_input' = [agent_prompt_input EXCEPT ![s] = ""]
                  ELSE /\ last' = Call("add_agent", s, NoId, <<>>, "none", saved.exc)
                       /\ UNCHANGED <<agent_name_input, agent_prompt_input>>
    /\ UNCHANGED <<started, simulation_log, kept, ops>>

(***************************************************************************)
(* delete_agent(agent_id); ok whether the store answers the DELETE.        *)
(***************************************************************************)
\* next((agent for agent in agents if agent.id == agent_id), None), as an index
FirstWithId(reg, agent_id) ==
    IF \E i \in 1 .. Len(reg) : reg[i].id = agent_id
    THEN CHOOSE i \in 1 .. Len(reg) :
            /\ reg[i].id = agent_id
            /\ \A j \in 1 .. i - 1 : reg[j].id # agent_id
    ELSE 0

\* list.remove(x): the first element equal to x is removed
ListRemove(reg, x) ==
    LET i == CHOOSE k \in 1 .. Len(reg) :
                /\ reg[k] = x
                /\ \A j \in 1 .. k - 1 : reg[j] # x IN
    SubSeq(reg, 1, i - 1) \o SubSeq(reg, i + 1, Len(reg))

\* mutant: the row is deleted whether or not the session holds the record
delete_agent_unguarded(s, agent_id, ok) ==
    /\ s \in started
    /\ StoreAnswers(ok)
    /\ LET i == FirstWithId(agents[s], agent_id) IN
       /\ agents' = IF i = 0 THEN agents
                    ELSE [agents EXCEPT ![s] = ListRemove(@, agents[s][i])]
       /\ store' = IF ok THEN delete_agent_from_db(store, agent_id) ELSE store
       /\ failures' = Failed(ok)
       /\ last' = IF ~ok
                  THEN Call("delete_agent", s, agent_id, <<>>, "none", "OperationalError")
                  ELSE Call("delete_agent", s, agent_id, <<>>,
                            IF i = 0 THEN "none" ELSE "info", "none")
    /\ UNCHANGED <<uuids, started, simulation_log, agent_name_input,
                   agent_prompt_input, kept, ops>>

\* mutant: a DELETE that removes no row raises
delete_agent_strict(s, agent_id, ok) ==
    /\ s \in started
    /\ LET i == FirstWithId(agents[s], agent_id) IN
       IF i = 0
       THEN /\ ok
            /\ last' = Call("delete_agent", s, agent_id, <<>>, "none", "none")
            /\ UNCHANGED <<store, agents, failures>>
       ELSE /\ StoreAnswers(ok)
            /\ agents' = [agents EXCEPT ![s] = ListRemove(@, agents[s][i])]
            /\ store' = IF ok THEN delete_agent_from_db(store, agent_id) ELSE store
            /\ failures' = Failed(ok)
            /\ last' = IF ~ok
                       THEN Call("delete_agent", s, agent_id, <<>>, "none", "OperationalError")
                       ELSE IF agent_id \notin RowIds(store)
                       THEN Call("delete_agent", s, agent_id, <<>>, "none", "LookupError")
                       ELSE Call("delete_agent", s, agent_id, <<>>, "info", "none")
    /\ UNCHANGED <<uuids, started, simulation_log, agent_name_input,
                   agent_prompt_input, kept, ops>>

delete_agent(s, agent_id, ok) ==
    /\ s \in started
    /\ LET i == FirstWithId(agents[s], agent_id) IN
       IF i = 0
       THEN /\ ok
            /\ last' = Call("delete_agent", s, agent_id, <<>>, "none", "none")
            /\ UNCHANGED <<store, agents, failures>>
       ELSE /\ StoreAnswers(ok)
            /\ agents' = [agents EXCEPT ![s] = ListRemove(@, agents[s][i])]
            /\ store' = IF ok THEN delete_agent_from_db(store, agent_id) ELSE store
            /\ failures' = Failed(ok)
            /\ last' = IF ok
                       THEN Call("delete_agent", s, agent_id, <<>>, "info", "none")
                       ELSE Call("delete_agent", s, agent_id, <<>>, "none", "OperationalError")
    /\ UNCHANGED <<uuids, started, simulation_log, agent_name_input,
                   agent_prompt_input, kept, ops>>

(***************************************************************************)
(* run_team_simulation; names is the value of team_multiselect.            *)
(***************************************************************************)
\* mutant: the last record of that name is taken
LastWithName(reg, name) ==
    IF \E i \in 1 .. Len(reg) : reg[i].name = name
    THEN CHOOSE i \in 1 .. Len(reg) :
            /\ reg[i].name = name
            /\ \A j \in i + 1 .. Len(reg) : reg[j].name # name
    ELSE 0

\* next((a for a in agents if a.name == name), None), as an index
FirstWithName(reg, name) ==
    IF \E i \in 1 .. Len(reg) : reg[i].name = name
    THEN CHOOSE i \in 1 .. Len(reg) :
            /\ reg[i].name = name
            /\ \A j \in 1 .. i - 1 : reg[j].name # name
    ELSE 0

\* mutant: the loop runs over the registry, not over the selection
RECURSIVE WorkBlocksRegistryOrder(_, _)
WorkBlocksRegistryOrder(reg, names) ==
    IF reg = <<>> THEN <<>>
    ELSE (IF \E i \in 1 .. Len(names) : names[i] = Head(reg).name
          THEN <<simulate_work(Head(reg))>> ELSE <<>>)
            \o WorkBlocksRegistryOrder(Tail(reg), names)

\* mutant: the loop ends at the first name that matches no record
RECURSIVE WorkBlocksStopAtMissing(_, _)
WorkBlocksStopAtMissing(reg, names) ==
    IF names = <<>> THEN <<>>
    ELSE IF \A i \in 1 .. Len(reg) : reg[i].name # Head(names) THEN <<>>
    ELSE <<simulate_work(reg[CHOOSE i \in 1 .. Len(reg) : reg[i].name = Head(names)])>>
            \o WorkBlocksStopAtMissing(reg, Tail(names))

\* the results the for loop appends, in the order of names
RECURSIVE WorkBlocks(_, _)
WorkBlocks(reg, names) ==
    IF names = <<>> THEN <<>>
    ELSE LET i == FirstWithName(reg, Head(names)) IN
         (IF i # 0 THEN <<simulate_work(reg[i])>> ELSE <<>>)
            \o WorkBlocks(reg, Tail(names))

RECURSIVE SumLen(_, _)
SumLen(f, n) == IF n = 0 THEN 0 ELSE Len(f[n]) + SumLen(f, n - 1)

\* mutant: no early return on an empty selection
run_team_simulation_unguarded(s, names) ==
    /\ s \in started
    /\ SumLen(simulation_log, Cardinality(Sessions)) + Len(names) + 2 <= MaxLog
    /\ simulation_log' = [simulation_log EXCEPT ![s] =
            (@ \o <<StartMarker>>) \o WorkBlocks(agents[s], names) \o <<EndMarker>>]
    /\ last' = Call("run_team_simulation", s, NoId, names, "rocket", "none")
    /\ UNCHANGED <<store, uuids, started, agents, agent_name_input,
                   agent_prompt_input, failures, kept, ops>>

run_team_simulation(s, names) ==
    /\ s \in started
    /\ IF names = <<>>
       THEN /\ last' = Call("run_team_simulation", s, NoId, names, "warning", "none")
            /\ UNCHANGED simulation_log
       ELSE /\ SumLen(simulation_log, Cardinality(Sessions)) + Len(names) + 2 <= MaxLog
            /\ simulation_log' = [simulation_log EXCEPT ![s] =
                    (@ \o <<StartMarker>>) \o WorkBlocks(agents[s], names) \o <<EndMarker>>]
            /\ last' = Call("run_team_simulation", s, NoId, names, "rocket", "none")
    /\ UNCHANGED <<store, uuids, started, agents, agent_name_input,
                   agent_prompt_input, failures, kept, ops>>

(***************************************************************************)
(* clear_log                                                               *)
(***************************************************************************)
\* mutant: only the newest entry is dropped
clear_log_pop(s) ==
    /\ s \in started
    /\ simulation_log' = [simulation_log EXCEPT ![s] =
            IF @ = <<>> THEN @ ELSE SubSeq(@, 1, Len(@) - 1)]
    /\ last' = Call("clear_log", s, NoId, <<>>, "info", "none")
    /\ UNCHANGED <<store, uuids, started, agents, agent_name_input,
                   agent_prompt_input, failures, kept, ops>>

clear_log(s) ==
    /\ s \in started
    /\ simulation_log' = [simulation_log EXCEPT ![s] = <<>>]
    /\ last' = Call("clear_log", s, NoId, <<>>, "info", "none")
    /\ UNCHANGED <<store, uuids, started, agents, agent_name_input,
                   agent_prompt_input, failures, kept, ops>>

(***************************************************************************)
(* The application: the sessions in SS run the script and its callbacks,   *)
(* with names and prompts typed from NN and PP, tool selections from TL,   *)
(* team selections from NS and a store that answers as OK allows.          *)
(***************************************************************************)
NameSeqs == UNION {[1 .. n -> Names] : n \in 0 .. MaxNames}

NextOver(SS, NN, PP, TL, NS, OK) ==
    \E s \in SS :
       \/ agent_and_team_manager(s)
       \/ \E name \in NN \cup {""}, prompt \in PP \cup {""} : text_input(s, name, prompt)
       \/ \E model \in MODELS, tools \in TL, ok \in OK : add_agent(s, model, tools, ok)
       \/ \E agent_id \in 1 .. MaxAgents, ok \in OK : delete_agent(s, agent_id, ok)
       \/ \E names \in NS : run_team_simulation(s, names)
       \/ clear_log(s)

\* one session; the store may raise
Next == NextOver({1}, Names, Prompts, {<<ToolB, ToolA>>}, NameSeqs, BOOLEAN)

Spec == Init /\ [][Next]_vars

\* two sessions on one store that always answers
NextShared == NextOver(Sessions, {"Alice"}, Prompts, {<<>>}, {<<>>, <<"Alice">>}, {TRUE})

SpecShared == Init /\ [][NextShared]_vars

(***************************************************************************)
(* The repository alone: one writer calls save_agent_to_db and             *)
(* delete_agent_from_db in any order, with records built by Agent(...)     *)
(* under explicit ids.                                                     *)
(***************************************************************************)
RepoAgents ==
    {Agent(name, prompt, model, tools, agent_id, NoId) :
        name \in Names, prompt \in Prompts, model \in MODELS,
        tools \in ToolLists, agent_id \in 1 .. MaxAgents}

RepoSave(agent) ==
    /\ ops < MaxRepoOps
    /\ LET saved == save_agent_to_db(store, agent) IN
       /\ store' = saved.db
       /\ kept' = IF saved.exc = "none" THEN kept \cup {agent} ELSE kept
       /\ last' = [Call("save_agent_to_db", 0, agent.id, <<>>, "none", saved.exc)
                      EXCEPT !.agent = agent]
    /\ ops' = ops + 1
    /\ UNCHANGED <<uuids, started, agents, simulation_log, agent_name_input,
                   agent_prompt_input, failures>>

RepoDelete(agent_id) ==
    /\ ops < MaxRepoOps
    /\ store' = delete_agent_from_db(store, agent_id)
    /\ kept' = {a \in kept : a.id # agent_id}
    /\ last' = Call("delete_agent_from_db", 0, agent_id, <<>>, "none", "none")
    /\ ops' = ops + 1
    /\ UNCHANGED <<uuids, started, agents, simulation_log, agent_name_input,
                   agent_prompt_input, failures>>

NextRepo ==
    \/ \E agent \in RepoAgents : RepoSave(agent)
    \/ \E agent_id \in 1 .. MaxAgents : RepoDelete(agent_id)

SpecRepo == Init /\ [][NextRepo]_vars

(***************************************************************************)
(* One session beside another writer that calls the repository functions   *)
(* on the same table: a row may already stand under the id uuid4 returns   *)
(* next (the duplicate id on save), and the store may raise.               *)
(***************************************************************************)
WriterAgents == {agent \in RepoAgents : agent.name = "Alice" /\ agent.tools = <<>>}

NextWriter ==
    \/ NextOver({1}, {"Alice"}, Prompts, {<<>>}, {<<>>}, BOOLEAN)
    \/ \E agent \in WriterAgents : RepoSave(agent)
    \/ \E agent_id \in 1 .. MaxAgents : RepoDelete(agent_id)

SpecWriter == Init /\ [][NextWriter]_vars

(***************************************************************************)
(* One session whose records all carry the same name and differ in their   *)
(* tools.                                                                  *)
(***************************************************************************)
NextSameName ==
    NextOver({1}, {"Alice"}, Prompts, {<<>>, <<ToolA>>}, {<<>>, <<"Alice">>, <<"Alice", "Alice">>}, {TRUE})

SpecSameName == Init /\ [][NextSameName]_vars

\* what load_agents_from_db returns now
LoadAll == load_agents_from_db(store, uuids)

Elems(seq) == {seq[i] : i \in 1 .. Len(seq)}

Ids(reg) == {reg[i].id : i \in 1 .. Len(reg)}

(***************************************************************************)
(* Properties.  A step is told apart by the call it records in last'.      *)
(***************************************************************************)
Ran(op, s) == last'.op = op /\ last'.session = s

\* the record add_agent appended to the registry of s in this step
Appended(s) == agents'[s][Len(agents'[s])]

\* add_agent of s ran with a non-empty name and a non-empty prompt
AddValid(s) ==
    /\ Ran("add_agent", s)
    /\ agent_name_input[s] # ""
    /\ agent_prompt_input[s] # ""

\* exactly one record, with a new id, is appended to the registry of s alone
OneNewRecord(s) ==
    /\ Len(agents'[s]) = Len(agents[s]) + 1
    /\ SubSeq(agents'[s], 1, Len(agents[s])) = agents[s]
    /\ \A t \in Sessions \ {s} : agents'[t] = agents[t]
    /\ Appended(s).id # NoId
    /\ \A t \in Sessions : Appended(s).id \notin Ids(agents[t])
    /\ Appended(s).id \notin RowIds(store)
    /\ Appended(s).name = agent_name_input[s]
    /\ Appended(s).prompt = agent_prompt_input[s]

\* the appended record is what the repository now loads, beside the old rows
NewRecordStored(s) ==
    /\ Len(store') = Len(store) + 1
    /\ SubSeq(store', 1, Len(store)) = store
    /\ Appended(s) \in Elems(load_agents_from_db(store', uuids').agents)

\* C1 as stated: every add_agent call with non-empty name and prompt produces
\* exactly one record with a new id, present afterwards in the session's
\* registry and in the repository.
C1_AsStated ==
    [][\A s \in Sessions : AddValid(s) => (OneNewRecord(s) /\ NewRecordStored(s))]_vars

\* C1, amended: every add_agent call with non-empty name and prompt appends
\* exactly one record with a new id to the session's registry, and the record
\* is in the repository too whenever the INSERT did not raise.
C1_CreateAgent ==
    [][\A s \in Sessions :
          AddValid(s) => /\ OneNewRecord(s)
                         /\ last'.exc = "none" => NewRecordStored(s)]_vars

\* a second record has been created and saved
C1_Witness ==
    /\ last.op = "add_agent"
    /\ last.toast = "success"
    /\ Len(agents[1]) = 2
    /\ Len(store) = 2

\* C2: add_agent with an empty name, an empty prompt or both changes neither
\* a registry nor the table, draws no uuid and shows the error toast.
C2_Rejected ==
    [][\A s \in Sessions :
          (Ran("add_agent", s) /\ (agent_name_input[s] = "" \/ agent_prompt_input[s] = ""))
             => /\ agents' = agents
                /\ store' = store
                /\ uuids' = uuids
                /\ last'.toast = "error"
                /\ last'.exc = "none"]_vars

\* rejected with a name but no prompt, the registry holding a record
C2_Witness ==
    /\ last.op = "add_agent"
    /\ last.toast = "error"
    /\ agent_name_input[1] # ""
    /\ agent_prompt_input[1] = ""
    /\ agents[1] # <<>>

\* delete_agent of s ran with the id of a record the registry of s held
DeletePresent(s) ==
    /\ Ran("delete_agent", s)
    /\ last'.agent_id \in Ids(agents[s])

\* exactly the record with that id left the registry of s, and no other registry changed
RemovedFromRegistry(s) ==
    /\ \E i \in 1 .. Len(agents[s]) :
          /\ agents[s][i].id = last'.agent_id
          /\ agents'[s] = SubSeq(agents[s], 1, i - 1) \o SubSeq(agents[s], i + 1, Len(agents[s]))
    /\ \A t \in Sessions \ {s} : agents'[t] = agents[t]

\* exactly the row with that id left the table
RemovedFromStore ==
    /\ last'.agent_id \notin RowIds(store')
    /\ Elems(store') = {row \in Elems(store) : row.id # last'.agent_id}
    /\ Len(store') = Cardinality(Elems(store'))

\* the same delete_agent call follows a delete_agent call that removed the record
DeleteRepeated(s) ==
    /\ last.op = "delete_agent"
    /\ last.session = s
    /\ last.toast = "info"
    /\ Ran("delete_agent", s)
    /\ last'.agent_id = last.agent_id

\* C3 as stated: delete_agent(id) for an id in the registry removes exactly that
\* record from the registry and from the table, and the same call again changes neither.
C3_AsStated ==
    [][\A s \in Sessions :
          /\ DeletePresent(s) => (RemovedFromRegistry(s) /\ RemovedFromStore)
          /\ DeleteRepeated(s) => (agents' = agents /\ store' = store)]_vars

\* C3, amended: delete_agent(id) for an id in the registry removes exactly that
\* record from the registry, and exactly its row from the table whenever the
\* DELETE did not raise; the same call again changes neither.
C3_DeleteAgent ==
    [][\A s \in Sessions :
          /\ DeletePresent(s) => /\ RemovedFromRegistry(s)
                                 /\ last'.exc = "none" => RemovedFromStore
          /\ DeleteRepeated(s) => (agents' = agents /\ store' = store)]_vars

\* a record was deleted while another one stayed in the registry and the table
C3_Witness ==
    /\ last.op = "delete_agent"
    /\ last.toast = "info"
    /\ Len(agents[1]) = 1
    /\ Len(store) = 1
    /\ agents[1][1].id # last.agent_id

\* C4: delete_agent(id) for an id the session's registry does not hold changes
\* neither a registry nor the table, raises nothing and shows no toast.
C4_DeleteAbsent ==
    [][\A s \in Sessions :
          (Ran("delete_agent", s) /\ last'.agent_id \notin Ids(agents[s]))
             => /\ agents' = agents
                /\ store' = store
                /\ last'.exc = "none"
                /\ last'.toast = "none"]_vars

\* the id was not in the caller's registry although the table holds its row
C4_Witness ==
    /\ last.op = "delete_agent"
    /\ last.toast = "none"
    /\ last.exc = "none"
    /\ last.agent_id \in RowIds(store)
    /\ last.agent_id \notin Ids(agents[last.session])

\* every record of every registry has a row of the same id
RegistryInStore == \A s \in started : Ids(agents[s]) \subseteq RowIds(store)

C6_LoadAll ==
    /\ LoadAll.exc = "none"
    /\ Elems(LoadAll.agents) = kept
    /\ Len(LoadAll.agents) = Cardinality(kept)

\* two records saved, then one of them deleted
C6_Witness ==
    /\ last.op = "delete_agent_from_db"
    /\ ops = 3
    /\ Cardinality(kept) = 1
    /\ Len(store) = 1

\* C7: a record just saved is loaded back with the same id, name, prompt,
\* model and tools.
C7_RoundTrip ==
    (last.op = "save_agent_to_db" /\ last.exc = "none")
       => \E i \in 1 .. Len(LoadAll.agents) :
             /\ LoadAll.agents[i].id = last.agent.id
             /\ LoadAll.agents[i].name = last.agent.name
             /\ LoadAll.agents[i].prompt = last.agent.prompt
             /\ LoadAll.agents[i].model = last.agent.model
             /\ LoadAll.agents[i].tools = last.agent.tools

\* saved with tool names that need escaping, beside a record without tools
C7_Witness ==
    /\ last.op = "save_agent_to_db"
    /\ last.exc = "none"
    /\ last.agent.tools = <<ToolB, ToolA>>
    /\ \E a \in kept : a.tools = <<>>

\* run_team_simulation of s ran with a non-empty selection whose names all resolve
RunResolved(s) ==
    /\ Ran("run_team_simulation", s)
    /\ last'.names # <<>>
    /\ \A i \in 1 .. Len(last'.names) :
          \E a \in Elems(agents[s]) : a.name = last'.names[i]

C9_RunEmpty ==
    [][\A s \in Sessions :
          (Ran("run_team_simulation", s) /\ last'.names = <<>>)
             => /\ simulation_log' = simulation_log
                /\ agents' = agents
                /\ store' = store
                /\ last'.toast = "warning"]_vars

\* an empty selection was run over a log that holds entries
C9_Witness ==
    /\ last.op = "run_team_simulation"
    /\ last.names = <<>>
    /\ last.toast = "warning"
    /\ simulation_log[1] # <<>>

\* C10: clear_log leaves the session's log empty whatever it held, and changes
\* no registry, not the table and no other session's log.
C10_ClearLog ==
    [][\A s \in Sessions :
          Ran("clear_log", s)
             => /\ simulation_log'[s] = <<>>
                /\ \A t \in Sessions \ {s} : simulation_log'[t] = simulation_log[t]
                /\ agents' = agents
                /\ store' = store]_vars

\* the log was cleared while the registry and the table hold a record
C10_Witness ==
    /\ last.op = "clear_log"
    /\ simulation_log[1] = <<>>
    /\ agents[1] # <<>>
    /\ store # <<>>

\* C11: in every state no two records of a registry share an id and no two
\* rows of the table share an id.
C11_UniqueIds ==
    /\ \A s \in Sessions : Cardinality(Ids(agents[s])) = Len(agents[s])
    /\ Cardinality(RowIds(store)) = Len(store)

\* both sessions hold two records and the table two rows
C11_Witness ==
    /\ \A s \in Sessions : Len(agents[s]) = 2
    /\ Len(store) = 2

\* C12: every row the callbacks have written has a non-empty name and a
\* non-empty prompt.
C12_NonEmptyFields ==
    \A i \in 1 .. Len(store) : store[i].name # "" /\ store[i].prompt # ""

\* two records have been saved, the last call being a successful add_agent
C12_Witness ==
    /\ Len(store) = 2
    /\ last.op = "add_agent"
    /\ last.toast = "success"

\* save_agent_to_db ran for a record whose id already had a row
SaveDuplicate ==
    /\ last'.op = "save_agent_to_db"
    /\ last'.agent.id \in RowIds(store)

\* add_agent of s ran and its INSERT raised
AddFailed(s) ==
    /\ Ran("add_agent", s)
    /\ last'.exc # "none"

\* C13: a save under an id that has a row raises the constraint violation and
\* leaves the table as it was; when the INSERT inside add_agent raises
\* (constraint violation or store unavailable) the new record is already in
\* the registry and stays, nothing is written for it, no toast is shown and
\* the inputs are kept.
C13_SaveFails ==
    [][/\ SaveDuplicate => (last'.exc = "IntegrityError" /\ store' = store)
       /\ \A s \in Sessions :
             AddFailed(s) =>
                /\ last'.exc \in {"IntegrityError", "OperationalError"}
                /\ Len(agents'[s]) = Len(agents[s]) + 1
                /\ SubSeq(agents'[s], 1, Len(agents[s])) = agents[s]
                /\ Appended(s).name = agent_name_input[s]
                /\ Appended(s).prompt = agent_prompt_input[s]
                /\ store' = store
                /\ last'.toast = "none"
                /\ agent_name_input' = agent_name_input
                /\ agent_prompt_input' = agent_prompt_input]_vars

\* add_agent met a row under the id it drew: the record is in the registry,
\* the table still holds the one row there was
C13_Witness ==
    /\ last.op = "add_agent"
    /\ last.exc = "IntegrityError"
    /\ Len(agents[1]) = 1
    /\ Len(store) = 1

\* delete_agent of s ran for a record s holds whose row is no longer in the table
DeleteRowGone(s) ==
    /\ DeletePresent(s)
    /\ last'.agent_id \notin RowIds(store)

\* C14: a DELETE for an id without a row is not an error and changes nothing:
\* when another session has already deleted a record this session still
\* holds, delete_agent completes with its toast, removes the record from this
\* session's registry and leaves the table unchanged.
C14_DeleteRowGone ==
    [][\A s \in Sessions :
          DeleteRowGone(s) => /\ last'.exc = "none"
                              /\ last'.toast = "info"
                              /\ RemovedFromRegistry(s)
                              /\ store' = store]_vars

\* one session has deleted a record and its row; the other session still
\* holds the record
C14_Witness ==
    /\ last.op = "delete_agent"
    /\ last.toast = "info"
    /\ last.agent_id \notin RowIds(store)
    /\ \E t \in Sessions \ {last.session} : last.agent_id \in Ids(agents[t])

\* the positions of the selection whose name matches a record of the registry
Resolving(reg, names) ==
    {i \in 1 .. Len(names) : \E a \in Elems(reg) : a.name = names[i]}

\* C15: in a run with a non-empty selection a name that matches no record
\* adds no entry and raises nothing: the start marker, the work blocks of the
\* names that resolve, in the order of the selection, and the end marker are
\* appended, and nothing else.
C15_SkipUnresolved ==
    [][\A s \in Sessions :
          (Ran("run_team_simulation", s) /\ last'.names # <<>>) =>
             LET names == last'.names
                 R     == Resolving(agents[s], names)
                 old   == simulation_log[s]
                 new   == simulation_log'[s] IN
             /\ last'.exc = "none"
             /\ last'.toast = "rocket"
             /\ Len(new) = Len(old) + Cardinality(R) + 2
             /\ SubSeq(new, 1, Len(old)) = old
             /\ new[Len(old) + 1] = StartMarker
             /\ \A i \in R :
                   LET k == Len(old) + 1 + Cardinality({j \in R : j <= i}) IN
                   /\ new[k][2] = names[i]
                   /\ \E a \in Elems(agents[s]) : new[k] = simulate_work(a)
             /\ new[Len(new)] = EndMarker]_vars

\* Bob then Alice were selected while the registry holds Alice alone
C15_Witness ==
    /\ last.op = "run_team_simulation"
    /\ last.names = <<"Bob", "Alice">>
    /\ Len(agents[1]) = 1
    /\ agents[1][1].name = "Alice"
    /\ simulation_log[1] = <<StartMarker, simulate_work(agents[1][1]), EndMarker>>

\* the place of the earliest record of that name in the registry
Earliest(reg, name) ==
    CHOOSE k \in 1 .. Len(reg) :
       /\ reg[k].name = name
       /\ \A j \in 1 .. Len(reg) : reg[j].name = name => k <= j

\* C16: a name resolves to the earliest record of that name in the registry's
\* order: every work block of a run is the block of that record, also when a
\* later record carries the same name.
C16_FirstMatch ==
    [][\A s \in Sessions :
          (Ran("run_team_simulation", s) /\ last'.names # <<>>) =>
             LET names == last'.names
                 R     == Resolving(agents[s], names)
                 old   == simulation_log[s]
                 new   == simulation_log'[s] IN
             \A i \in R :
                new[Len(old) + 1 + Cardinality({j \in R : j <= i})]
                   = simulate_work(agents[s][Earliest(agents[s], names[i])])]_vars

\* two records named Alice with different tools; the run shows the first one's
\* block and not the second one's
C16_Witness ==
    /\ last.op = "run_team_simulation"
    /\ last.names = <<"Alice">>
    /\ Len(agents[1]) = 2
    /\ agents[1][1].name = "Alice"
    /\ agents[1][2].name = "Alice"
    /\ simulate_work(agents[1][1]) # simulate_work(agents[1][2])
    /\ simulation_log[1] = <<StartMarker, simulate_work(agents[1][1]), EndMarker>>

\* C17: the registry of a session is set from what the table holds when the
\* session starts, once; afterwards only that session's add_agent and
\* delete_agent change it, and only that session's callbacks change its log,
\* whatever the other sessions do to the table.
C17_PrivateRegistry ==
    [][\A s \in Sessions :
          /\ Ran("agent_and_team_manager", s)
                => /\ s \notin started
                   /\ s \in started'
                   /\ agents'[s] = LoadAll.agents
          /\ s \in started => s \in started'
          /\ agents'[s] # agents[s]
                => /\ last'.session = s
                   /\ \/ s \notin started
                      \/ last'.op \in {"add_agent", "delete_agent"}
          /\ simulation_log'[s] # simulation_log[s]
                => /\ last'.session = s
                   /\ last'.op \in {"run_team_simulation", "clear_log"}]_vars

\* session 1 has just added a record to the table; session 2, started
\* before, holds another registry and a log of its own
C17_Witness ==
    /\ started = Sessions
    /\ last.op = "add_agent"
    /\ last.session = 1
    /\ last.toast = "success"
    /\ Ids(agents[2]) # RowIds(store)
    /\ simulation_log[2] # <<>>
    /\ simulation_log[1] = <<>>

\* C18: with one session, as long as no store operation has raised, the ids
\* of the registry are the ids of the rows, after the first script run and
\* after every callback.
C18_SameIds ==
    failures = 0 => \A s \in started : Ids(agents[s]) = RowIds(store)

\* a record has been deleted and another one is left, in the registry and in
\* the table, nothing having raised
C18_Witness ==
    /\ failures = 0
    /\ last.op = "delete_agent"
    /\ last.toast = "info"
    /\ Len(agents[1]) = 1
    /\ Len(store) = 1

\* C19: with two sessions on one table that always answers, in every
\* interleaving each add_agent that passes validation adds exactly the row
\* of its new record, each delete_agent that finds the id in its own
\* registry removes exactly the row of that id, and no other step changes
\* the table; from the empty table, the rows are therefore the records
\* created minus those so deleted.
C19_NoLostWrite ==
    [][\A s \in Sessions :
          last'.session = s =>
             IF AddValid(s)
             THEN /\ Appended(s).id \notin RowIds(store)
                  /\ store' = Append(store, Row(Appended(s)))
             ELSE IF DeletePresent(s)
             THEN RemovedFromStore
             ELSE store' = store]_vars

\* each session has created one record; the table holds both rows although
\* each registry holds its own record only
C19_Witness ==
    /\ started = Sessions
    /\ last.op = "add_agent"
    /\ last.toast = "success"
    /\ Len(agents[1]) = 1
    /\ Len(agents[2]) = 1
    /\ agents[1][1].id # agents[2][1].id
    /\ RowIds(store) = Ids(agents[1]) \cup Ids(agents[2])

\* C20: an add_agent that ends with the success toast leaves both inputs of
\* its session empty; an add_agent that follows it directly, with no new
\* input, ends with the error toast and creates no record; an add_agent
\* rejected by validation leaves the inputs as they were.
C20_InputsReset ==
    [][\A s \in Sessions :
          /\ (Ran("add_agent", s) /\ last'.toast = "success")
                => /\ agent_name_input'[s] = ""
                   /\ agent_prompt_input'[s] = ""
          /\ (/\ last.op = "add_agent" /\ last.session = s
              /\ last.toast = "success"
              /\ Ran("add_agent", s))
                => /\ last'.toast = "error"
                   /\ agents' = agents
                   /\ store' = store
                   /\ uuids' = uuids
          /\ (Ran("add_agent", s) /\ last'.toast = "error")
                => /\ agent_name_input' = agent_name_input
                   /\ agent_prompt_input' = agent_prompt_input]_vars

\* the second add_agent was rejected: one record, empty inputs, error toast
C20_Witness ==
    /\ last.op = "add_agent"
    /\ last.toast = "error"
    /\ agent_name_input[1] = ""
    /\ agent_prompt_input[1] = ""
    /\ Len(agents[1]) = 1
    /\ Len(store) = 1
    /\ uuids = 1

====
